---------------------------- MODULE Spec2Model ----------------------------
(***************************************************************************)
(* Model of streamlit_v3.py: the cached GraphML loader                     *)
(* (load_all_networks), the encoding pipeline (create_plotly_graph) and    *)
(* the script body that Streamlit re-runs for every session interaction.   *)
(*                                                                         *)
(* Modelling conventions                                                   *)
(*  - A file name is a tuple of one-character strings, so that             *)
(*    str.endswith and str.replace are computed character by character.    *)
(*  - A graph is [nodes, edges, attrs]: the node list in insertion order,  *)
(*    the edge list (a pair per edge; parallel edges are repeated pairs,   *)
(*    a self-loop is a pair <<n, n>>) and the attribute dict of each node. *)
(*  - Python floats are modelled as exact rationals [num, den].            *)
(*  - The coordinates returned by nx.spring_layout are opaque values, one  *)
(*    pair per node; their numeric value is not modelled.                  *)
(*  - The folder path is either missing or a directory.                    *)
(***************************************************************************)
EXTENDS Integers, Sequences, FiniteSets, TLC

(***************************************************************************)
(* Bounds of the model.                                                    *)
(***************************************************************************)
MaxNodes == 3
MaxEdges == 3
NumSessions == 2
MaxRuns == 3

(***************************************************************************)
(* Python values.                                                          *)
(***************************************************************************)
None == [kind |-> "None"]

EmptyDict == << >>

DictSet(d, k, v) == [x \in (DOMAIN d) \cup {k} |-> IF x = k THEN v ELSE d[x]]

Range(s) == {s[i] : i \in DOMAIN s}

(***************************************************************************)
(* Strings as character tuples.                                            *)
(***************************************************************************)
GRAPHML_FOLDER == "data"

EXT == <<".", "g", "r", "a", "p", "h", "m", "l">>

\* str.endswith(suffix)
endswith(s, suffix) ==
    /\ Len(s) >= Len(suffix)
    /\ SubSeq(s, Len(s) - Len(suffix) + 1, Len(s)) = suffix

\* s[i..] starts with old
StartsAt(s, i, old) ==
    /\ i + Len(old) - 1 <= Len(s)
    /\ SubSeq(s, i, i + Len(old) - 1) = old

RECURSIVE ReplaceFrom(_, _, _, _)
ReplaceFrom(s, i, old, new) ==
    IF i > Len(s) THEN << >>
    ELSE IF StartsAt(s, i, old)
         THEN new \o ReplaceFrom(s, i + Len(old), old, new)
         ELSE <<s[i]>> \o ReplaceFrom(s, i + 1, old, new)

\* str.replace(old, new): every non-overlapping occurrence, left to right
replace(s, old, new) == ReplaceFrom(s, 1, old, new)

\* network_name = filename.replace(".graphml", "")
network_name(filename) == replace(filename, EXT, << >>)

\* The file name minus only its trailing extension (what "extension
\* stripped" means for a name that ends with the extension).
StripExtension(filename) == SubSeq(filename, 1, Len(filename) - Len(EXT))

(***************************************************************************)
(* Floats as exact rationals.                                              *)
(***************************************************************************)
Abs(x) == IF x < 0 THEN -x ELSE x

RECURSIVE GCD(_, _)
GCD(a, b) == IF b = 0 THEN a ELSE GCD(b, a % b)

\* the rational n/d, d > 0, in lowest terms
Rat(n, d) ==
    LET g == GCD(Abs(n), d)
    IN  [num |-> n \div g, den |-> d \div g]

ZeroDivisionError == [raised |-> "ZeroDivisionError"]

\* int / int
TrueDiv(a, b) ==
    IF b = 0 THEN ZeroDivisionError
    ELSE IF b < 0 THEN Rat(-a, -b) ELSE Rat(a, b)

\* float * int
RatMul(r, k) == Rat(r.num * k, r.den)

\* int + float
RatAdd(k, r) == Rat(k * r.den + r.num, r.den)

RatLeq(r, q) == r.num * q.den <= q.num * r.den

RatOfInt(k) == [num |-> k, den |-> 1]

(***************************************************************************)
(* Graphs (networkx Graph / MultiGraph objects).                           *)
(***************************************************************************)
\* nx_graph.degree[node]: the number of edge ends at node, so that a
\* self-loop adds 2
Degree(G, node) ==
    LET ends(e) == (IF e[1] = node THEN 1 ELSE 0) + (IF e[2] = node THEN 1 ELSE 0)
        sum[k \in 0..Len(G.edges)] ==
            IF k = 0 THEN 0 ELSE sum[k - 1] + ends(G.edges[k])
    IN  sum[Len(G.edges)]

SetMin(S) == CHOOSE x \in S : \A y \in S : x <= y

SetMax(S) == CHOOSE x \in S : \A y \in S : y <= x

\* raw_degrees = [val for (node, val) in nx_graph.degree()]
RawDegrees(G) == [i \in 1..Len(G.nodes) |-> Degree(G, G.nodes[i])]

\* variant: the minimum is not subtracted
MinDegMut(raw) == 0

\* min_deg of lines 68-76
MinDeg(raw) == IF Len(raw) > 0 THEN SetMin(Range(raw)) ELSE 0

\* variant: the range is not forced to 1 when it is 0
DegreeRangeMut(raw) ==
    IF Len(raw) > 0 THEN SetMax(Range(raw)) - SetMin(Range(raw)) ELSE 1

\* degree_range of lines 68-76
DegreeRange(raw) ==
    IF Len(raw) > 0
    THEN LET r == SetMax(Range(raw)) - SetMin(Range(raw))
         IN  IF r = 0 THEN 1 ELSE r
    ELSE 1

\* pos = nx.spring_layout(nx_graph, k=0.3, iterations=50, seed=42): one
\* (x, y) pair per node, fixed by the graph and the seed
spring_layout(G) ==
    [n \in Range(G.nodes) |-> <<[axis |-> "x", node |-> n], [axis |-> "y", node |-> n]>>]

\* dict.get(key, default)
DictGet(data, key, default) == IF key \in DOMAIN data THEN data[key] ELSE default

\* variant: setdefault in place of get
NodeDataAfterGetMut(data) ==
    IF "community_id" \in DOMAIN data THEN data ELSE DictSet(data, "community_id", 0)

\* the node's attribute dict after node_data.get('community_id', 0)
NodeDataAfterGet(data) == data

\* normalized_size = (degree_count - min_deg) / degree_range
NormalizedSize(degree_count, mn, rng) == TrueDiv(degree_count - mn, rng)

\* final_size = 10 + (normalized_size * 40)
FinalSize(degree_count, mn, rng) ==
    LET normalized_size == NormalizedSize(degree_count, mn, rng)
    IN  IF normalized_size = ZeroDivisionError THEN ZeroDivisionError
        ELSE RatAdd(10, RatMul(normalized_size, 40))

\* hover_info of lines 100-104
HoverInfo(node, degree_count, community_id) ==
    <<"<b>", node, "</b><br>", "Degree: ", degree_count, "<br>",
      "Community ID: ", community_id>>

\* the lists built by the loop of lines 79-105
NodeX(G, p) == [i \in 1..Len(G.nodes) |-> p[G.nodes[i]][1]]

NodeY(G, p) == [i \in 1..Len(G.nodes) |-> p[G.nodes[i]][2]]

NodeSizes(G, mn, rng) ==
    [i \in 1..Len(G.nodes) |-> FinalSize(Degree(G, G.nodes[i]), mn, rng)]

NodeColors(G) ==
    [i \in 1..Len(G.nodes) |-> DictGet(G.attrs[G.nodes[i]], "community_id", 0)]

NodeText(G) ==
    [i \in 1..Len(G.nodes) |->
        HoverInfo(G.nodes[i], Degree(G, G.nodes[i]),
                  DictGet(G.attrs[G.nodes[i]], "community_id", 0))]

\* variant: self-loops are skipped
EdgeCoordsMut(G, p, axis) ==
    LET keep == SelectSeq(G.edges, LAMBDA e : e[1] # e[2])
    IN  [j \in 1..(3 * Len(keep)) |->
            LET e == keep[(j + 2) \div 3]
            IN  IF j % 3 = 1 THEN p[e[1]][axis]
                ELSE IF j % 3 = 2 THEN p[e[2]][axis]
                ELSE None]

\* edge_x (axis 1) and edge_y (axis 2) after the loop of lines 111-115:
\* [start, end, None] appended for every edge, in edge order
EdgeCoords(G, p, axis) ==
    [j \in 1..(3 * Len(G.edges)) |->
        LET e == G.edges[(j + 2) \div 3]
        IN  IF j % 3 = 1 THEN p[e[1]][axis]
            ELSE IF j % 3 = 2 THEN p[e[2]][axis]
            ELSE None]

\* the traces and figure of lines 117-160
Figure(ex, ey, nx, ny, ntext, nsizes, ncolors) ==
    [edge_trace |-> [x |-> ex, y |-> ey],
     node_trace |-> [x |-> nx, y |-> ny, hovertext |-> ntext, size |-> nsizes,
                     color |-> ncolors,
                     cmin |-> IF Len(ncolors) > 0 THEN SetMin(Range(ncolors)) ELSE 0,
                     cmax |-> IF Len(ncolors) > 0 THEN SetMax(Range(ncolors)) ELSE 1]]

\* the graph object after create_plotly_graph has run on it
GraphAfterCall(G) ==
    [G EXCEPT !.attrs = [n \in DOMAIN G.attrs |-> NodeDataAfterGet(G.attrs[n])]]

\* create_plotly_graph(nx_graph, network_name) as one call: what it returns
\* (or that it raised) and the state it leaves its argument in
create_plotly_graph(G) ==
    LET p == spring_layout(G)
        raw == RawDegrees(G)
        mn == MinDeg(raw)
        rng == DegreeRange(raw)
        sizes == NodeSizes(G, mn, rng)
    IN  IF \E i \in DOMAIN sizes : sizes[i] = ZeroDivisionError
        THEN [raised |-> TRUE, fig |-> None, graph |-> G]
        ELSE [raised |-> FALSE,
              fig |-> Figure(EdgeCoords(G, p, 1), EdgeCoords(G, p, 2),
                             NodeX(G, p), NodeY(G, p), NodeText(G), sizes,
                             NodeColors(G)),
              graph |-> GraphAfterCall(G)]

(***************************************************************************)
(* Input graphs of create_plotly_graph.                                    *)
(***************************************************************************)
SeqsUpTo(S, n) == UNION {[1..k -> S] : k \in 0..n}

\* unordered node pairs, self-loops included
Pairs(n) == {<<u, v>> \in (1..n) \X (1..n) : u <= v}

AttrProfiles == {"bare", "stored", "mixed"}

Attrs(profile, n) ==
    IF profile = "stored"
    THEN [community_id |-> n, degree |-> 7, centrality |-> 9]
    ELSE IF profile = "mixed" /\ n % 2 = 1
    THEN [community_id |-> 3, size |-> [str |-> <<"1", "2">>]]
    ELSE EmptyDict

MkGraph(n, es, profile) ==
    [nodes |-> [i \in 1..n |-> i], edges |-> es,
     attrs |-> [i \in 1..n |-> Attrs(profile, i)]]

(***************************************************************************)
(* The folder on disk and load_all_networks.                               *)
(***************************************************************************)
F_a == <<"a">> \o EXT

F_b == <<"b">> \o EXT

F_notes == <<"n", "o", "t", "e", "s", ".", "t", "x", "t">>

F_aa == <<"a">> \o EXT \o EXT

F_bak == <<"a">> \o EXT \o <<".", "b", "a", "k">>

\* the file names a folder may hold
FileNames == {F_a, F_b, F_notes, F_aa, F_bak}

\* what nx.read_graphml returns for each (well-formed) file
FileGraph(filename) ==
    IF filename = F_a
    THEN \* a path 1 - 2 - 3 with a self-loop at 3
         [nodes |-> <<1, 2, 3>>, edges |-> <<<<1, 2>>, <<2, 3>>, <<3, 3>>>>,
          attrs |-> <<[community_id |-> 1, size |-> [str |-> <<"1", "2">>]],
                      [size |-> [str |-> <<"b", "i", "g">>]],
                      [community_id |-> 2, size |-> [float |-> 3], degree |-> 7]>>]
    ELSE IF filename = F_b
    THEN \* a triangle
         [nodes |-> <<1, 2, 3>>, edges |-> <<<<1, 2>>, <<2, 3>>, <<1, 3>>>>,
          attrs |-> <<[community_id |-> 5], [community_id |-> 5], EmptyDict>>]
    ELSE IF filename = F_aa
    THEN \* two nodes joined by two parallel edges
         [nodes |-> <<1, 2>>, edges |-> <<<<1, 2>>, <<1, 2>>>>,
          attrs |-> <<EmptyDict, [community_id |-> 4]>>]
    ELSE [nodes |-> << >>, edges |-> << >>, attrs |-> << >>]

Digits == <<"0", "1", "2", "3", "4", "5", "6", "7", "8", "9">>

DigitValue(c) == (CHOOSE d \in 1..10 : Digits[d] = c) - 1

\* float(text) for decimal digit strings; any other text raises ValueError
IsNumeric(text) == Len(text) > 0 /\ \A i \in 1..Len(text) : text[i] \in Range(Digits)

RECURSIVE ParseDigits(_, _)
ParseDigits(text, n) ==
    IF n = 0 THEN 0 ELSE 10 * ParseDigits(text, n - 1) + DigitValue(text[n])

\* lines 34-36 on one attribute dict
CleanSize(data) ==
    IF "size" \in DOMAIN data /\ "str" \in DOMAIN data["size"]
    THEN IF IsNumeric(data["size"].str)
         THEN [data EXCEPT !["size"] = [float |-> ParseDigits(data["size"].str, Len(data["size"].str))]]
         ELSE data
    ELSE data

\* lines 29-36: the parsed graph with its attributes cleaned up
LoadedGraph(filename) ==
    LET G == FileGraph(filename)
    IN  [G EXCEPT !.attrs = [n \in DOMAIN G.attrs |-> CleanSize(G.attrs[n])]]

\* every order os.listdir may return the files in
Perms(S) ==
    {f \in [1..Cardinality(S) -> S] : \A i, j \in 1..Cardinality(S) : f[i] = f[j] => i = j}

\* lines 25-41: the loop, from position i of the listing on; a file that
\* fails to parse raises inside the try and leaves networks_dict as it is
RECURSIVE LoadLoop(_, _, _, _)
LoadLoop(listing, i, networks_dict, corrupt) ==
    IF i > Len(listing) THEN networks_dict
    ELSE LET filename == listing[i]
         IN  IF endswith(filename, EXT) /\ filename \notin corrupt
             THEN LoadLoop(listing, i + 1,
                           DictSet(networks_dict, network_name(filename), LoadedGraph(filename)),
                           corrupt)
             ELSE LoadLoop(listing, i + 1, networks_dict, corrupt)

\* variant: the empty dict is returned for a missing path
NotFoundResultMut == [kind |-> "dict", items |-> EmptyDict]

\* line 22
NotFoundResult == None

\* the body of load_all_networks (lines 19-43) on a folder
load_all_networks(exists, listing, corrupt) ==
    IF ~exists THEN NotFoundResult
    ELSE [kind |-> "dict", items |-> LoadLoop(listing, 1, EmptyDict, corrupt)]

\* not value
Falsy(value) == value = None \/ (value.kind = "dict" /\ DOMAIN value.items = {})

TakesErrorBranch(value) == value = None

\* variant: a second if in place of the elif
TakesWarningBranchMut(value) == Falsy(value)

\* line 173, reached when line 171 is false
TakesWarningBranch(value) == ~TakesErrorBranch(value) /\ Falsy(value)

\* line 175
TakesRenderBranch(value) == ~TakesErrorBranch(value) /\ ~TakesWarningBranch(value)

(***************************************************************************)
(* State.                                                                  *)
(***************************************************************************)
VARIABLES
    \* one call of create_plotly_graph, statement by statement
    nx_graph, pos, raw_degrees, min_deg, degree_range,
    node_x, node_y, node_text, node_sizes, node_colors, edge_x, edge_y,
    fig, pcP,
    \* the folder GRAPHML_FOLDER on disk
    fsExists, fsFiles, fsCorrupt,
    \* st.cache_resource: the cached value per folder path and its lock
    cache, lock,
    \* the dict objects built by load_all_networks, and the record of every
    \* execution of its body: what it saw on disk and what it returned
    objects, scanned,
    \* the script run of each session
    pc, skills_networks, selected_network_name, shown, plotted, runs

pvars == <<nx_graph, pos, raw_degrees, min_deg, degree_range, node_x, node_y,
           node_text, node_sizes, node_colors, edge_x, edge_y, fig, pcP>>

fsvars == <<fsExists, fsFiles, fsCorrupt>>

svars == <<cache, lock, objects, scanned, pc, skills_networks,
           selected_network_name, shown, plotted, runs>>

vars == <<pvars, fsvars, svars>>

Sessions == 1..NumSessions

Unset == [kind |-> "Unset"]

\* the pipeline variables before any call
PipelineIdle ==
    /\ nx_graph = MkGraph(0, << >>, "bare")
    /\ pos = None /\ raw_degrees = None /\ min_deg = None /\ degree_range = None
    /\ node_x = << >> /\ node_y = << >> /\ node_text = << >>
    /\ node_sizes = << >> /\ node_colors = << >>
    /\ edge_x = << >> /\ edge_y = << >>
    /\ fig = None

\* the cache and the sessions before the script has started
ShellIdle ==
    /\ cache = [path \in {GRAPHML_FOLDER} |-> Unset]
    /\ lock = 0
    /\ objects = << >>
    /\ scanned = << >>
    /\ pc = [s \in Sessions |-> "idle"]
    /\ skills_networks = [s \in Sessions |-> Unset]
    /\ selected_network_name = [s \in Sessions |-> None]
    /\ shown = [s \in Sessions |-> {}]
    /\ plotted = [s \in Sessions |-> None]
    /\ runs = 0

(***************************************************************************)
(* create_plotly_graph, statement by statement, on every bounded graph.     *)
(***************************************************************************)
InitPipeline ==
    /\ PipelineIdle
    /\ ShellIdle
    /\ fsExists = FALSE /\ fsFiles = {} /\ fsCorrupt = {}
    /\ pcP = "call"

\* the call: nx_graph is bound to the argument, any graph of at most
\* MaxNodes nodes and MaxEdges edges with one of the attribute profiles
Call ==
    /\ pcP = "call"
    /\ \E n \in 0..MaxNodes :
          \E es \in SeqsUpTo(Pairs(n), MaxEdges), profile \in AttrProfiles :
              nx_graph' = MkGraph(n, es, profile)
    /\ pcP' = "layout"
    /\ UNCHANGED <<pos, raw_degrees, min_deg, degree_range, node_x, node_y,
                   node_text, node_sizes, node_colors, edge_x, edge_y, fig>>
    /\ UNCHANGED <<fsvars, svars>>

\* line 53
Layout ==
    /\ pcP = "layout"
    /\ pos' = spring_layout(nx_graph)
    /\ pcP' = "degrees"
    /\ UNCHANGED <<nx_graph, raw_degrees, min_deg, degree_range, node_x, node_y,
                   node_text, node_sizes, node_colors, edge_x, edge_y, fig>>
    /\ UNCHANGED <<fsvars, svars>>

\* lines 65-76
Degrees ==
    /\ pcP = "degrees"
    /\ raw_degrees' = RawDegrees(nx_graph)
    /\ min_deg' = MinDeg(raw_degrees')
    /\ degree_range' = DegreeRange(raw_degrees')
    /\ pcP' = "nodes"
    /\ UNCHANGED <<nx_graph, pos, node_x, node_y,
                   node_text, node_sizes, node_colors, edge_x, edge_y, fig>>
    /\ UNCHANGED <<fsvars, svars>>

\* lines 79-105: the loop over the nodes; a ZeroDivisionError at line 92
\* leaves the function
NodeLoop ==
    /\ pcP = "nodes"
    /\ LET sizes == NodeSizes(nx_graph, min_deg, degree_range)
       IN  IF \E i \in DOMAIN sizes : sizes[i] = ZeroDivisionError
           THEN /\ pcP' = "raised"
                /\ UNCHANGED <<node_x, node_y, node_text, node_sizes, node_colors>>
           ELSE /\ node_x' = NodeX(nx_graph, pos)
                /\ node_y' = NodeY(nx_graph, pos)
                /\ node_sizes' = sizes
                /\ node_colors' = NodeColors(nx_graph)
                /\ node_text' = NodeText(nx_graph)
                /\ pcP' = "edges"
    /\ nx_graph' = GraphAfterCall(nx_graph)
    /\ UNCHANGED <<pos, raw_degrees, min_deg, degree_range, edge_x, edge_y, fig>>
    /\ UNCHANGED <<fsvars, svars>>

\* lines 108-115
EdgeLoop ==
    /\ pcP = "edges"
    /\ edge_x' = EdgeCoords(nx_graph, pos, 1)
    /\ edge_y' = EdgeCoords(nx_graph, pos, 2)
    /\ pcP' = "figure"
    /\ UNCHANGED <<nx_graph, pos, raw_degrees, min_deg, degree_range, node_x, node_y,
                   node_text, node_sizes, node_colors, fig>>
    /\ UNCHANGED <<fsvars, svars>>

\* lines 117-162
BuildFigure ==
    /\ pcP = "figure"
    /\ fig' = Figure(edge_x, edge_y, node_x, node_y, node_text, node_sizes, node_colors)
    /\ pcP' = "done"
    /\ UNCHANGED <<nx_graph, pos, raw_degrees, min_deg, degree_range, node_x, node_y,
                   node_text, node_sizes, node_colors, edge_x, edge_y>>
    /\ UNCHANGED <<fsvars, svars>>

NextPipeline == Call \/ Layout \/ Degrees \/ NodeLoop \/ EdgeLoop \/ BuildFigure

SpecPipeline == InitPipeline /\ [][NextPipeline]_vars

(***************************************************************************)
(* load_all_networks on every folder over FileNames.                       *)
(***************************************************************************)
\* what one execution of the body of load_all_networks saw and returned;
\* a returned dict is a new object, known by its place in objects
Execution(listing) ==
    LET returned == load_all_networks(fsExists, listing, fsCorrupt)
    IN  [exists |-> fsExists, files |-> fsFiles, corrupt |-> fsCorrupt,
         listing |-> listing, returned |-> returned,
         result |-> IF returned = None THEN None
                    ELSE [kind |-> "ref", id |-> Len(objects) + 1]]

InitLoader ==
    /\ PipelineIdle
    /\ pcP = "idle"
    /\ ShellIdle
    /\ fsExists \in BOOLEAN
    /\ fsFiles \in IF fsExists THEN SUBSET FileNames ELSE {{}}
    \* only a file the loader opens can fail to parse
    /\ fsCorrupt \in SUBSET {f \in fsFiles : endswith(f, EXT)}

\* load_all_networks(GRAPHML_FOLDER), lines 19-43, with the files listed in
\* any order
CallLoader ==
    /\ scanned = << >>
    /\ \E listing \in Perms(fsFiles) :
          LET run == Execution(listing)
          IN  /\ scanned' = <<run>>
              /\ objects' = IF run.returned = None THEN objects
                            ELSE Append(objects, run.returned)
    /\ UNCHANGED <<pvars, fsvars, cache, lock, pc, skills_networks,
                   selected_network_name, shown, plotted, runs>>

NextLoader == CallLoader

SpecLoader == InitLoader /\ [][NextLoader]_vars

(***************************************************************************)
(* The script (lines 165-195), run by every session on every interaction,  *)
(* over the process-wide cache of load_all_networks.                       *)
(***************************************************************************)
\* the states of the folder the sessions run against
ShellFolders ==
    {[exists |-> FALSE, files |-> {}, corrupt |-> {}],
     [exists |-> TRUE, files |-> {F_notes}, corrupt |-> {}],
     [exists |-> TRUE, files |-> {F_a, F_b, F_notes}, corrupt |-> {}],
     [exists |-> TRUE, files |-> {F_a, F_b, F_aa}, corrupt |-> {F_b}]}

Folder == [exists |-> fsExists, files |-> fsFiles, corrupt |-> fsCorrupt]

InitShell ==
    /\ PipelineIdle
    /\ pcP = "idle"
    /\ ShellIdle
    /\ \E folder \in ShellFolders :
          /\ fsExists = folder.exists
          /\ fsFiles = folder.files
          /\ fsCorrupt = folder.corrupt

\* the object a returned value stands for: None, or the dict it refers to
Deref(value) == IF value = None THEN None ELSE objects[value.id]

\* variant: the function is not cached
CachedValueMut(c, folder_path) == Unset

\* @st.cache_resource: the entry of the cache for the call's argument
CachedValue(c, folder_path) == c[folder_path]

\* another process changes the folder
FsChange ==
    /\ \E folder \in ShellFolders \ {Folder} :
          /\ fsExists' = folder.exists
          /\ fsFiles' = folder.files
          /\ fsCorrupt' = folder.corrupt
    /\ UNCHANGED <<pvars, svars>>

\* a session connects or interacts: Streamlit runs the script from the top
StartRun(s) ==
    /\ pc[s] \in {"idle", "done"}
    /\ runs < MaxRuns
    /\ runs' = runs + 1
    /\ pc' = [pc EXCEPT ![s] = "call"]
    /\ skills_networks' = [skills_networks EXCEPT ![s] = Unset]
    /\ selected_network_name' = [selected_network_name EXCEPT ![s] = None]
    /\ shown' = [shown EXCEPT ![s] = {}]
    /\ plotted' = [plotted EXCEPT ![s] = None]
    /\ UNCHANGED <<pvars, fsvars, cache, lock, objects, scanned>>

\* line 169, the cached function is called: a hit returns the cached value,
\* a miss goes on to the lock that guards the computation
Lookup(s) ==
    /\ pc[s] = "call"
    /\ LET v == CachedValue(cache, GRAPHML_FOLDER)
       IN  IF v # Unset
           THEN /\ skills_networks' = [skills_networks EXCEPT ![s] = v]
                /\ pc' = [pc EXCEPT ![s] = "branch"]
           ELSE /\ pc' = [pc EXCEPT ![s] = "wait"]
                /\ UNCHANGED skills_networks
    /\ UNCHANGED <<pvars, fsvars, cache, lock, objects, scanned,
                   selected_network_name, shown, plotted, runs>>

Acquire(s) ==
    /\ pc[s] = "wait"
    /\ lock = 0
    /\ lock' = s
    /\ pc' = [pc EXCEPT ![s] = "locked"]
    /\ UNCHANGED <<pvars, fsvars, cache, objects, scanned, skills_networks,
                   selected_network_name, shown, plotted, runs>>

\* under the lock: the cache is read again; on a miss the body of
\* load_all_networks (lines 19-43) runs and its result is stored
Compute(s) ==
    /\ pc[s] = "locked"
    /\ LET v == CachedValue(cache, GRAPHML_FOLDER)
       IN  IF v # Unset
           THEN /\ skills_networks' = [skills_networks EXCEPT ![s] = v]
                /\ UNCHANGED <<cache, objects, scanned>>
           ELSE \E listing \in Perms(fsFiles) :
                  LET run == Execution(listing)
                  IN  /\ objects' = IF run.returned = None THEN objects
                                    ELSE Append(objects, run.returned)
                      /\ scanned' = Append(scanned, run)
                      /\ cache' = [cache EXCEPT ![GRAPHML_FOLDER] = run.result]
                      /\ skills_networks' = [skills_networks EXCEPT ![s] = run.result]
    /\ lock' = 0
    /\ pc' = [pc EXCEPT ![s] = "branch"]
    /\ UNCHANGED <<pvars, fsvars, selected_network_name, shown, plotted, runs>>

\* lines 171-175
Branch(s) ==
    /\ pc[s] = "branch"
    /\ LET value == Deref(skills_networks[s])
       IN  /\ shown' = [shown EXCEPT ![s] =
                 (IF TakesErrorBranch(value) THEN {"error"} ELSE {})
                 \cup (IF TakesWarningBranch(value) THEN {"warning"} ELSE {})]
           /\ pc' = [pc EXCEPT ![s] = IF TakesRenderBranch(value) THEN "sidebar" ELSE "done"]
    /\ UNCHANGED <<pvars, fsvars, cache, lock, objects, scanned, skills_networks,
                   selected_network_name, plotted, runs>>

\* lines 177-185: the selectbox offers the keys of the mapping
Select(s) ==
    /\ pc[s] = "sidebar"
    /\ \E name \in DOMAIN Deref(skills_networks[s]).items :
          selected_network_name' = [selected_network_name EXCEPT ![s] = name]
    /\ pc' = [pc EXCEPT ![s] = "render"]
    /\ UNCHANGED <<pvars, fsvars, cache, lock, objects, scanned, skills_networks,
                   shown, plotted, runs>>

\* lines 188-193: the selected graph object is passed to the plotter
Render(s) ==
    /\ pc[s] = "render"
    /\ LET id == skills_networks[s].id
           name == selected_network_name[s]
           G_selected == objects[id].items[name]
           call == create_plotly_graph(G_selected)
       IN  /\ objects' = [objects EXCEPT ![id].items[name] = call.graph]
           /\ plotted' = [plotted EXCEPT ![s] = [name |-> name, nx_graph |-> G_selected]]
           /\ shown' = [shown EXCEPT ![s] = IF call.raised THEN @ ELSE @ \cup {"chart"}]
    /\ pc' = [pc EXCEPT ![s] = "done"]
    /\ UNCHANGED <<pvars, fsvars, cache, lock, scanned, skills_networks,
                   selected_network_name, runs>>

NextShell ==
    \/ FsChange
    \/ \E s \in Sessions :
          StartRun(s) \/ Lookup(s) \/ Acquire(s) \/ Compute(s) \/ Branch(s)
          \/ Select(s) \/ Render(s)

SpecShell == InitShell /\ [][NextShell]_vars

(***************************************************************************)
(* Properties of create_plotly_graph (checked under SpecPipeline).         *)
(***************************************************************************)
NumNodes == Len(nx_graph.nodes)

NumEdges == Len(nx_graph.edges)

DegreeSet == {Degree(nx_graph, nx_graph.nodes[i]) : i \in 1..NumNodes}

AllSameDegree == Cardinality(DegreeSet) <= 1

\* the number of edges of the edge list that have node as an end
IncidentEdgeCount(G, node) ==
    Cardinality({k \in 1..Len(G.edges) : node \in {G.edges[k][1], G.edges[k][2]}})

\* C1: when create_plotly_graph has run on a graph, node_x, node_y,
\* node_sizes, node_colors and node_text each hold one entry per node, and
\* edge_x and edge_y each hold one [start, end, None] triple per edge, in
\* edge order; the traces of the figure carry these lists.
C1_OneEntryPerNodeAndEdge ==
    pcP = "done" =>
        /\ Len(node_x) = NumNodes /\ Len(node_y) = NumNodes
        /\ Len(node_sizes) = NumNodes /\ Len(node_colors) = NumNodes
        /\ Len(node_text) = NumNodes
        /\ Len(edge_x) = 3 * NumEdges /\ Len(edge_y) = 3 * NumEdges
        /\ \A k \in 1..NumEdges :
              LET e == nx_graph.edges[k]
              IN  /\ edge_x[3 * k - 2] = pos[e[1]][1] /\ edge_x[3 * k - 1] = pos[e[2]][1]
                  /\ edge_y[3 * k - 2] = pos[e[1]][2] /\ edge_y[3 * k - 1] = pos[e[2]][2]
                  /\ edge_x[3 * k] = None /\ edge_y[3 * k] = None
        /\ Len(fig.node_trace.x) = NumNodes /\ Len(fig.node_trace.size) = NumNodes
        /\ Len(fig.edge_trace.x) = 3 * NumEdges /\ Len(fig.edge_trace.y) = 3 * NumEdges

\* a finished call on a graph with a self-loop, a parallel pair of edges
\* and an isolated node
C1_Witness ==
    /\ pcP = "done"
    /\ \E k \in 1..NumEdges : nx_graph.edges[k][1] = nx_graph.edges[k][2]
    /\ \E k, l \in 1..NumEdges : k # l /\ nx_graph.edges[k] = nx_graph.edges[l]
    /\ \E i \in 1..NumNodes : Degree(nx_graph, nx_graph.nodes[i]) = 0
    /\ Len(edge_x) = 3 * NumEdges /\ Len(node_x) = NumNodes

\* C2: every pixel size is 10 + 40 * (degree - minDeg) / range, with range
\* the spread of the degrees (1 when the spread is 0), and lies in
\* [10, 50]; when maxDeg > minDeg the nodes of minimum degree get exactly
\* 10 and the nodes of maximum degree exactly 50.
C2_SizeIsLinearMapOnto10To50 ==
    pcP = "done" =>
        \A i \in 1..NumNodes :
            LET d == Degree(nx_graph, nx_graph.nodes[i])
                lo == SetMin(DegreeSet)
                hi == SetMax(DegreeSet)
                range == IF hi = lo THEN 1 ELSE hi - lo
                size == node_sizes[i]
            IN  /\ size.den > 0
                /\ size.num * range = size.den * (10 * range + 40 * (d - lo))
                /\ RatLeq(RatOfInt(10), size) /\ RatLeq(size, RatOfInt(50))
                /\ (hi > lo /\ d = lo) => size = RatOfInt(10)
                /\ (hi > lo /\ d = hi) => size = RatOfInt(50)

\* a finished call where the degrees differ and some node lies strictly
\* between the minimum and the maximum
C2_Witness ==
    /\ pcP = "done"
    /\ \E i, j, k \in 1..NumNodes :
          /\ node_sizes[i] = RatOfInt(10)
          /\ node_sizes[j] = RatOfInt(50)
          /\ ~RatLeq(node_sizes[k], RatOfInt(10)) /\ ~RatLeq(RatOfInt(50), node_sizes[k])

\* C3: when all nodes have the same degree (also one node, no edges, no
\* nodes), degree_range is 1, line 92 never divides by zero, and the call
\* ends with one size of exactly 10 per node (none for the empty graph).
C3_EqualDegreesAllSize10 ==
    AllSameDegree =>
        /\ pcP # "raised"
        /\ pcP \in {"nodes", "edges", "figure", "done"} => degree_range = 1
        /\ pcP = "done" =>
              /\ Len(node_sizes) = NumNodes
              /\ \A i \in 1..NumNodes : node_sizes[i] = RatOfInt(10)

\* a finished call on a graph with edges whose nodes all have degree 2
C3_Witness ==
    /\ pcP = "done"
    /\ NumNodes >= 2 /\ DegreeSet = {2}
    /\ \A i \in 1..NumNodes : node_sizes[i] = RatOfInt(10)

\* C4: the degree shown in each hover label, and used for the size, is the
\* number of edges of the edge list that are incident to the node, whatever
\* the node's stored attributes say.
C4_DegreeIsIncidentEdgeCount ==
    pcP = "done" =>
        \A i \in 1..NumNodes :
            LET n == nx_graph.nodes[i]
                raw == [j \in 1..NumNodes |-> IncidentEdgeCount(nx_graph, nx_graph.nodes[j])]
            IN  /\ node_text[i][5] = IncidentEdgeCount(nx_graph, n)
                /\ node_sizes[i] =
                       FinalSize(IncidentEdgeCount(nx_graph, n), MinDeg(raw), DegreeRange(raw))

(***************************************************************************)
(* Properties of load_all_networks (checked under SpecLoader).             *)
(***************************************************************************)
\* the files of an execution that end with the extension
Matching(run) == {f \in run.files : endswith(f, EXT)}

\* those of them that parse
Parseable(run) == Matching(run) \ run.corrupt

\* C5: for an existing folder the keys of the returned mapping are exactly
\* the names of the parseable files ending in .graphml, each minus only its
\* trailing extension, one distinct key per such file.
C5_KeysAreNamesMinusTrailingExtension ==
    \A k \in DOMAIN scanned :
        LET run == scanned[k]
        IN  run.exists =>
              /\ run.returned # None
              /\ DOMAIN run.returned.items = {StripExtension(f) : f \in Parseable(run)}
              /\ Cardinality(DOMAIN run.returned.items) = Cardinality(Parseable(run))

\* C6: the body returns None exactly when the path does not exist; an
\* existing folder without matching files gives the empty mapping; and the
\* tests of lines 171-175 tell the three outcomes apart: the error branch is
\* taken exactly for the missing path, the warning branch exactly for an
\* empty mapping, the render branch exactly for a non-empty mapping.
C6_NoneIffPathMissing ==
    \A k \in DOMAIN scanned :
        LET run == scanned[k]
            r == run.returned
        IN  /\ (r = None) <=> ~run.exists
            /\ (run.exists /\ Matching(run) = {}) =>
                   (r # None /\ r.kind = "dict" /\ r.items = EmptyDict)
            /\ TakesErrorBranch(r) <=> ~run.exists
            /\ TakesWarningBranch(r) <=> (run.exists /\ DOMAIN r.items = {})
            /\ TakesRenderBranch(r) <=> (run.exists /\ DOMAIN r.items # {})
            /\ (run.exists /\ Parseable(run) # {}) => TakesRenderBranch(r)

\* the body has run on an existing folder that holds files, none of them
\* matching, and returned the empty mapping
C6_Witness ==
    /\ Len(scanned) = 1
    /\ scanned[1].exists
    /\ scanned[1].files = {F_notes, F_bak}
    /\ scanned[1].returned = [kind |-> "dict", items |-> EmptyDict]

\* C7: whatever the listing order and whichever files are corrupt, the
\* mapping returned for an existing folder holds the graph of every valid
\* matching file and the graph of no corrupt one.
C7_EveryValidFileLoaded ==
    \A k \in DOMAIN scanned :
        LET run == scanned[k]
        IN  run.exists =>
              /\ run.returned # None
              /\ \A f \in Matching(run) :
                    (f \notin run.corrupt) <=>
                        \E key \in DOMAIN run.returned.items :
                            run.returned.items[key] = LoadedGraph(f)

(***************************************************************************)
(* Properties of the script over the cache (checked under SpecShell).      *)
(***************************************************************************)
\* C8: the body of load_all_networks runs at most once for the folder
\* path; the cache entry, once set, is the result of that one execution,
\* and every call of every session returns that result, also after the
\* folder has changed and when the first calls overlap.
C8_ScanAtMostOnce ==
    /\ Len(scanned) <= 1
    /\ cache[GRAPHML_FOLDER] # Unset =>
          (Len(scanned) = 1 /\ cache[GRAPHML_FOLDER] = scanned[1].result)
    /\ \A s \in Sessions :
          skills_networks[s] # Unset =>
              (Len(scanned) = 1 /\ skills_networks[s] = scanned[1].result)

\* a session has its result from the one execution, the folder is no longer
\* what that execution saw, and another session that missed the cache
\* before the result was stored still waits for the lock
C8_Witness ==
    /\ Len(scanned) = 1
    /\ Folder # [exists |-> scanned[1].exists, files |-> scanned[1].files,
                 corrupt |-> scanned[1].corrupt]
    /\ \E s, t \in Sessions :
          /\ s # t
          /\ skills_networks[s] = scanned[1].result
          /\ pc[s] = "done"
          /\ pc[t] = "wait"

\* C9: create_plotly_graph is called only in a run whose loader result is a
\* non-empty mapping, and with a graph of that mapping; a finished run has
\* shown exactly one of the error, the warning and the chart: the error
\* (and no plot) for the missing folder, the warning (and no plot) for the
\* empty mapping, the chart for a non-empty mapping.
C9_PipelineOnlyOnLoadedGraph ==
    \A s \in Sessions :
        /\ pc[s] \in {"sidebar", "render"} \/ plotted[s] # None =>
              /\ skills_networks[s] \notin {Unset, None}
              /\ DOMAIN Deref(skills_networks[s]).items # {}
        /\ plotted[s] # None =>
              /\ plotted[s].name \in DOMAIN Deref(skills_networks[s]).items
              /\ plotted[s].nx_graph = Deref(skills_networks[s]).items[plotted[s].name]
        /\ pc[s] = "done" =>
              LET value == Deref(skills_networks[s])
              IN  /\ Cardinality(shown[s]) = 1
                  /\ value = None => (shown[s] = {"error"} /\ plotted[s] = None)
                  /\ (value # None /\ DOMAIN value.items = {}) =>
                         (shown[s] = {"warning"} /\ plotted[s] = None)
                  /\ (value # None /\ DOMAIN value.items # {}) =>
                         (shown[s] = {"chart"} /\ plotted[s] # None)

\* a run over an existing folder without loadable files has ended with the
\* warning and without a plot
C9_Witness ==
    \E s \in Sessions :
        /\ pc[s] = "done"
        /\ Len(scanned) = 1 /\ scanned[1].exists
        /\ shown[s] = {"warning"}
        /\ plotted[s] = None

\* C10: every dict object built by the loader still holds, under every
\* key, the graph (nodes, edges, attribute values) the loader put there,
\* whatever has been rendered since.
C10_CachedGraphsUnchanged ==
    \A k \in DOMAIN scanned :
        scanned[k].result # None =>
            objects[scanned[k].result.id] = scanned[k].returned

\* two sessions have rendered the same cached graph, one after the other,
\* and were passed the same input
C10_Witness ==
    \E s, t \in Sessions :
        /\ s # t
        /\ pc[s] = "done" /\ pc[t] = "done"
        /\ plotted[s] # None
        /\ plotted[s] = plotted[t]
        /\ \E n \in DOMAIN plotted[s].nx_graph.attrs :
              "community_id" \notin DOMAIN plotted[s].nx_graph.attrs[n]

=============================================================================
